---- MODULE Spec2Model ----
(***************************************************************************)
(* Model of the directory scanner of lr-mig2: src/src/file_scanner.py      *)
(* (FileScanner, PerformanceTracker), with the store of src/src/database.py*)
(* and the logger of src/src/db_logger.py.                                 *)
(*                                                                         *)
(* Paths, directory names and file names are strings, and the path and     *)
(* pattern functions of the Python library (os.path.basename, os.path.join,*)
(* pathlib.Path, fnmatch.fnmatch, str.lower) are computed character by     *)
(* character, as on a POSIX system (the scanner runs in a Linux container).*)
(***************************************************************************)
EXTENDS Integers, Sequences, FiniteSets, TLC

VARIABLES
    fsFiles,      \* the file system: the paths of the regular files that exist
    fsMeta,       \* the metadata the files carry, as the extraction libraries give it
    directories,  \* table directories: rows [id, dirpath, parent_id]
    files,        \* table files: rows [id, filepath, exif, scan_session_id]
    scan_logs,    \* table scan_logs: rows [id, session_id, log_level, file_path]
    ids,          \* the serial counters of the three tables and the session ids drawn
    scanner,      \* the FileScanner instance in use (NoScanner before the first)
    frame,        \* the running scan_directory call: its locals and its position
    hist,         \* what the current scan_directory call has done so far
    log,          \* every _store_directory and _store_file call so far, in order
    config,       \* the run's settings: recursive, performance_reporting
    budget,       \* how many outside calls and injected faults have happened
    conns         \* the open transactions of scans that run side by side

vars == <<fsFiles, fsMeta, directories, files, scan_logs, ids, scanner, frame, hist,
          log, config, budget, conns>>

-----------------------------------------------------------------------------
(* Bounds of the model.                                                    *)

\* calls from outside: scan_directory and _store_directory
MaxCalls == 2

\* injected faults: a store call, a stat or an extraction that fails
MaxFaults == 1

\* how many calls of end_file_processing one tracker gets
MaxSamples == 52

-----------------------------------------------------------------------------
(* Strings.                                                                *)

Ch(s, i) == SubSeq(s, i, i)

Rest(s) == SubSeq(s, 2, Len(s))

Max(S) == CHOOSE m \in S : \A x \in S : x <= m

UpperChars == "ABCDEFGHIJKLMNOPQRSTUVWXYZ"

LowerChars == "abcdefghijklmnopqrstuvwxyz"

LowerChar(c) ==
    LET hit == {i \in 1..Len(UpperChars) : Ch(UpperChars, i) = c}
    IN  IF hit = {} THEN c ELSE Ch(LowerChars, CHOOSE i \in hit : TRUE)

RECURSIVE lower(_)
lower(s) == IF s = "" THEN "" ELSE LowerChar(Ch(s, 1)) \o lower(Rest(s))

\* str.rfind(c) + 1: the 1-based position of the last c in s, 0 when there is none
RFind(s, c) ==
    LET hit == {i \in 1..Len(s) : Ch(s, i) = c}
    IN  IF hit = {} THEN 0 ELSE Max(hit)

RECURSIVE rstrip_sep(_)
rstrip_sep(p) ==
    IF Len(p) > 1 /\ Ch(p, Len(p)) = "/" THEN rstrip_sep(SubSeq(p, 1, Len(p) - 1))
    ELSE p

\* fnmatch.fnmatchcase for patterns of literals, * and ? (the configured
\* patterns use no [ ] classes)
RECURSIVE fnmatchcase(_, _)
fnmatchcase(name, pat) ==
    IF pat = "" THEN name = ""
    ELSE IF Ch(pat, 1) = "*"
         THEN fnmatchcase(name, Rest(pat))
              \/ (name # "" /\ fnmatchcase(Rest(name), pat))
         ELSE /\ name # ""
              /\ (Ch(pat, 1) = "?" \/ Ch(pat, 1) = Ch(name, 1))
              /\ fnmatchcase(Rest(name), Rest(pat))

\* fnmatch.fnmatch: both arguments go through os.path.normcase, which on
\* POSIX returns them unchanged
fnmatch(name, pat) == fnmatchcase(name, pat)

\* os.path.basename (posixpath): what follows the last separator
basename(p) == SubSeq(p, RFind(p, "/") + 1, Len(p))

\* os.path.join(a, b) for a relative b
join(a, b) == IF a = "" \/ Ch(a, Len(a)) = "/" THEN a \o b ELSE a \o "/" \o b

\* str(pathlib.Path(p)): trailing separators are dropped
PathStr(p) == rstrip_sep(p)

\* pathlib.Path(p).name
PathName(p) == basename(PathStr(p))

\* str(pathlib.Path(p).parent)
PathParent(p) ==
    LET q == PathStr(p)
        i == RFind(q, "/")
    IN  IF i = 0 THEN "."
        ELSE IF i = 1 THEN "/"
        ELSE SubSeq(q, 1, i - 1)

\* pathlib.Path(name).suffix: from the last dot, unless the dot is the first
\* or the last character of the name
PathSuffix(name) ==
    LET n == PathName(name)
        i == RFind(n, ".")
    IN  IF 1 < i /\ i < Len(n) THEN SubSeq(n, i, Len(n)) ELSE ""

SeqToSet(s) == {s[i] : i \in 1..Len(s)}

\* str.endswith
endswith(s, suffix) ==
    Len(s) >= Len(suffix) /\ SubSeq(s, Len(s) - Len(suffix) + 1, Len(s)) = suffix

-----------------------------------------------------------------------------
(* Metadata values.  A value is a record [type, v]: a Python str with its  *)
(* code points in v, a bytes object with its bytes in v, an int n with     *)
(* v = <<n>>, or an exifread IfdTag with the code points of its printable  *)
(* text in v.  A map (a dict) is a function from keys to values.           *)

Str(v) == [type |-> "str", v |-> v]

Bytes(v) == [type |-> "bytes", v |-> v]

Integer(n) == [type |-> "int", v |-> <<n>>]

IfdTag(v) == [type |-> "IfdTag", v |-> v]

RECURSIVE Flatten(_)
Flatten(ss) == IF ss = <<>> THEN <<>> ELSE Head(ss) \o Flatten(Tail(ss))

\* the decimal digits of n, as code points
RECURSIVE Digits(_)
Digits(n) == IF n < 10 THEN <<48 + n>> ELSE Digits(n \div 10) \o <<48 + (n % 10)>>

HexDigit(d) == IF d < 10 THEN 48 + d ELSE 87 + d

\* one byte in the repr of a bytes object
byte_repr(b) ==
    IF b = 92 THEN <<92, 92>>
    ELSE IF b = 39 THEN <<92, 39>>
    ELSE IF b = 9 THEN <<92, 116>>
    ELSE IF b = 10 THEN <<92, 110>>
    ELSE IF b = 13 THEN <<92, 114>>
    ELSE IF 32 <= b /\ b < 127 THEN <<b>>
    ELSE <<92, 120, HexDigit(b \div 16), HexDigit(b % 16)>>

\* str(value): a str is itself, an int its digits, a bytes object its repr
\* b'...', an IfdTag its printable text
str(value) ==
    IF value.type = "int" THEN Digits(value.v[1])
    ELSE IF value.type = "bytes"
         THEN <<98, 39>> \o Flatten([i \in 1..Len(value.v) |-> byte_repr(value.v[i])])
              \o <<39>>
    ELSE value.v

\* the text a library makes from the bytes of a field, one character for
\* each byte (exifread's make_string, PIL's latin-1 decoding): every
\* character is below 256
latin1(v) == [i \in 1..Len(v) |-> v[i] % 256]

isinstance_bytes(value) == value.type = "bytes"

isinstance_str(value) == value.type = "str"

\* a dict that holds the items of f and of g, those of g last
Merge(f, g) ==
    [k \in DOMAIN f \cup DOMAIN g |-> IF k \in DOMAIN g THEN g[k] ELSE f[k]]

EmptyMap == [k \in {} |-> Str(<<>>)]

\* str.encode('utf-8') refuses the surrogate code points
is_surrogate(c) == 55296 <= c /\ c <= 57343

utf8_encodable(v) == \A i \in 1..Len(v) : ~is_surrogate(v[i])

\* value.encode('utf-8', errors='replace').decode('utf-8'): a surrogate
\* becomes a question mark
encode_replace(v) == [i \in 1..Len(v) |-> IF is_surrogate(v[i]) THEN 63 ELSE v[i]]

\* one character in a JSON string, ensure_ascii=False: the quote, the
\* backslash and the control characters are escaped, all else is copied
json_char(c) ==
    IF c = 34 THEN <<92, 34>>
    ELSE IF c = 92 THEN <<92, 92>>
    ELSE IF c = 10 THEN <<92, 110>>
    ELSE IF c = 13 THEN <<92, 114>>
    ELSE IF c = 9 THEN <<92, 116>>
    ELSE IF c = 8 THEN <<92, 98>>
    ELSE IF c = 12 THEN <<92, 102>>
    ELSE IF c < 32 THEN <<92, 117, 48, 48, HexDigit(c \div 16), HexDigit(c % 16)>>
    ELSE <<c>>

json_string(v) ==
    <<34>> \o Flatten([i \in 1..Len(v) |-> json_char(v[i])]) \o <<34>>

\* json.dumps(d, ensure_ascii=False) of a dict of str: the members of the
\* JSON object, each value as its JSON string
json_dumps(d) == [k \in DOMAIN d |-> json_string(d[k].v)]

-----------------------------------------------------------------------------
(* Configuration: src/src/config.py.                                       *)

SUPPORTED_RAW_FORMATS ==
    <<"dng", "arw", "cr2", "cr3", "nef", "raf", "orf", "rw2", "srw", "x3f",
      "jpg", "jpeg", "tif", "tiff", "png", "bmp">>

EXCLUDED_DIRS ==
    <<"*StarQ*", "$RECYCLE.BIN*", "System Volume Information*", "RECYCLER*",
      ".Trash*", ".DS_Store*", "Thumbs.db*", "desktop.ini*", ".git*",
      "__pycache__*", "node_modules*", ".svn*", ".hg*">>

-----------------------------------------------------------------------------
(* The file system the scanner reads.  The directories are fixed; which    *)
(* files exist is chosen in Init.  Listings come in the order given here.  *)

FsDirs ==
    <<"/data", "/data/sub", "/data/3StarQ70", "/data/3StarQ70/inner",
      "/data/.cache", "/data/4starq90">>

FsFiles ==
    <<"/data/a.jpg", "/data/b.txt", "/data/sub/d.DNG", "/data/3StarQ70/e.jpg",
      "/data/3StarQ70/inner/f.jpg", "/data/.cache/g.jpg", "/data/4starq90/h.png">>

\* the trees Init chooses from
Trees ==
    { {"/data/a.jpg", "/data/b.txt", "/data/sub/d.DNG", "/data/3StarQ70/e.jpg",
       "/data/3StarQ70/inner/f.jpg"},
      {"/data/a.jpg", "/data/.cache/g.jpg", "/data/4starq90/h.png"},
      {"/data/.cache/g.jpg"} }

\* the roots scan_directory is called with: a directory, the same with a
\* trailing separator, a directory with an excluded name, and a path that is
\* no directory (a regular file in some trees, missing in the others)
Roots == {"/data", "/data/", "/data/3StarQ70", "/data/a.jpg"}

\* every path string the walk can hold for a directory, and for a file
DirPaths == SeqToSet(FsDirs) \cup Roots

FilePaths == SeqToSet(FsFiles)

RECURSIVE SelectNames(_, _)
SelectNames(paths, parent) ==
    IF paths = <<>> THEN <<>>
    ELSE IF PathParent(Head(paths)) = parent
         THEN <<basename(Head(paths))>> \o SelectNames(Tail(paths), parent)
         ELSE SelectNames(Tail(paths), parent)

\* os.path.isdir
isdir(p) == PathStr(p) \in SeqToSet(FsDirs)

\* the dirnames os.walk / os.scandir gives for top
walk_dirnames(top) == SelectNames(FsDirs, PathStr(top))

\* the filenames os.walk / os.listdir gives for top in file system fs
walk_filenames(top, fs) ==
    SelectNames(SelectSeq(FsFiles, LAMBDA f : f \in fs), PathStr(top))

-----------------------------------------------------------------------------
(* FileScanner: the pure parts.                                            *)

None == "None"

NULL == 0

is_excluded_dir(dirpath) ==
    LET dir_name == basename(dirpath)
    IN  \E i \in 1..Len(EXCLUDED_DIRS) : fnmatch(dir_name, EXCLUDED_DIRS[i])

\* a test that only looks whether the name has a suffix
is_supported_any_suffix(filename) ==
    IF filename = "" THEN FALSE ELSE PathSuffix(filename) # ""

_is_supported_file(filename) ==
    IF filename = "" THEN FALSE
    ELSE LET file_ext == lower(PathSuffix(filename))
             ext == IF file_ext # "" /\ Ch(file_ext, 1) = "." THEN Rest(file_ext)
                    ELSE file_ext
         IN  ext \in SeqToSet(SUPPORTED_RAW_FORMATS)

_should_exclude_directory(dirname) ==
    IF dirname = "" THEN FALSE
    ELSE \/ \E i \in 1..Len(EXCLUDED_DIRS) :
               fnmatch(lower(dirname), lower(EXCLUDED_DIRS[i]))
         \/ Ch(dirname, 1) = "."

CountSupported(names) ==
    Cardinality({i \in 1..Len(names) : _is_supported_file(names[i])})

\* the recursive branch of _count_total_files: os.walk with the excluded
\* dirnames filtered out of every listing (the top itself is never tested)
RECURSIVE count_walk(_, _), count_children(_, _, _)
count_walk(top, fs) ==
    IF ~isdir(top) THEN 0
    ELSE CountSupported(walk_filenames(top, fs))
         + count_children(top,
               SelectSeq(walk_dirnames(top),
                         LAMBDA d : ~_should_exclude_directory(d)), fs)
count_children(top, dirs, fs) ==
    IF dirs = <<>> THEN 0
    ELSE count_walk(join(top, Head(dirs)), fs) + count_children(top, Tail(dirs), fs)

\* os.listdir raises for a missing path or a non-directory; the handler
\* returns 0
_count_total_files(directory, recursive, fs) ==
    IF recursive THEN count_walk(directory, fs)
    ELSE IF ~isdir(directory) THEN 0
         ELSE CountSupported(walk_filenames(directory, fs))

\* the paths os.walk descends into next: dirpath joined with each dirname
RECURSIVE subpaths(_, _)
subpaths(dirpath, dirnames) ==
    IF dirnames = <<>> THEN <<>>
    ELSE <<join(dirpath, Head(dirnames))>> \o subpaths(dirpath, Tail(dirnames))

\* an excluded directory skipped without clearing its dirnames
prune_nothing(dirnames) == dirnames

\* dirnames.clear() on an excluded directory
prune(dirnames) == <<>>

\* the tag names of the model, in the order the libraries list them, and the
\* keys f"value_{i}" and f"PIL_{tag_id}" that _extract_exif makes
TagNames == <<"Make", "Thumb">>

ValueKeys == <<"value_0", "value_1">>

PilKey(tag_id) == "PIL_" \o tag_id

\* the values a tag can have: plain text, text with a NUL and control
\* characters, text with an unpaired surrogate, binary data, a number
TagValues ==
    {Str(<<65>>), Str(<<65, 0, 9, 31, 32, 127>>), Str(<<65, 55296>>),
     Bytes(<<0, 255>>), Integer(42)}

TagMaps == UNION {[K -> TagValues] : K \in SUBSET SeqToSet(TagNames)}

\* what ExifToolHelper.get_metadata returns: a dict, a list that holds one
\* dict, or a list of plain values
Shapes == {"dict", "list", "values"}

DefaultMetadata ==
    [shape |-> "dict",
     tags |-> [k \in SeqToSet(TagNames) |->
                 IF k = "Make" THEN Str(<<65, 0, 9, 31, 32, 127>>)
                 ELSE Bytes(<<0, 255>>)]]

\* the values of a dict as a list, in the order of the tag names
ListOf(tags) ==
    LET present == SelectSeq(TagNames, LAMBDA k : k \in DOMAIN tags)
    IN  [i \in 1..Len(present) |-> tags[present[i]]]

\* the loop over a dict without the test for bytes
str_values_keep_bytes(d) == [k \in DOMAIN d |-> Str(str(d[k]))]

\* the loop over the items of a dict: bytes are skipped, every other value
\* becomes its str()
str_values(d) ==
    LET keep == {k \in DOMAIN d : ~isinstance_bytes(d[k])}
    IN  [k \in keep |-> Str(str(d[k]))]

\* the loop over a list of plain values, with numbered keys
numbered_values(items) ==
    LET keep == {i \in 1..Len(items) : ~isinstance_bytes(items[i])}
    IN  [k \in {ValueKeys[i] : i \in keep} |->
            Str(str(items[CHOOSE i \in keep : ValueKeys[i] = k]))]

\* the printable text of a list of numbers: [0, 255]
RECURSIVE list_repr(_)
list_repr(v) ==
    IF v = <<>> THEN <<>>
    ELSE IF Len(v) = 1 THEN Digits(v[1])
    ELSE Digits(v[1]) \o <<44, 32>> \o list_repr(Tail(v))

\* the printable text exifread gives a field: text made from the bytes, the
\* digits of a number, the list of the bytes of binary data
ifd_printable(value) ==
    IF isinstance_bytes(value) THEN <<91>> \o list_repr(value.v) \o <<93>>
    ELSE latin1(str(value))

\* exifread.process_file(f, details=False): an IfdTag object for every tag;
\* with details=False it adds no thumbnail bytes, so no value is a bytes
\* object
exifread_process_file(tags) == [k \in DOMAIN tags |-> IfdTag(ifd_printable(tags[k]))]

\* the loop over the exifread tags: every value becomes its str()
exifread_values(tags) == [k \in DOMAIN tags |-> Str(str(tags[k]))]

\* PIL's img._getexif(): text decoded from the bytes, bytes and numbers as
\* they are
pil_getexif(tags) ==
    [k \in DOMAIN tags |->
        IF isinstance_str(tags[k]) THEN Str(latin1(tags[k].v)) ELSE tags[k]]

\* the loop over the PIL items
pil_values(d) ==
    LET keep == {k \in DOMAIN d : ~isinstance_bytes(d[k])}
    IN  [k \in {PilKey(j) : j \in keep} |->
            Str(str(d[CHOOSE j \in keep : PilKey(j) = k]))]

\* a filter that also drops the tab and the space
is_clean_char_above_space(c) == c > 32

\* the characters the sanitizer keeps: ord(char) >= 32 or char in '\t\n\r'
is_clean_char(c) == c >= 32 \/ c \in {9, 10, 13}

_sanitize_exif_for_json(exif_data) ==
    [key \in DOMAIN exif_data |->
        LET value == exif_data[key]
        IN  IF isinstance_str(value)
            THEN Str(SelectSeq(SelectSeq(value.v, LAMBDA c : c # 0), is_clean_char))
            ELSE Str(str(value))]

\* the second conversion of _store_file, for a Unicode error of the first
encode_replace_values(exif_data) ==
    [key \in DOMAIN exif_data |-> Str(encode_replace(str(exif_data[key])))]

\* The string functions above, tabulated once over the paths of the model.
IsDir == [p \in DirPaths |-> isdir(p)]

ParentOf == [p \in DirPaths |-> PathParent(p)]

DirNames == [p \in DirPaths |-> walk_dirnames(p)]

FileNames == [fs \in Trees |-> [p \in DirPaths |-> walk_filenames(p, fs)]]

TotalFiles ==
    [fs \in Trees |-> [p \in Roots |-> [r \in BOOLEAN |->
        _count_total_files(p, r, fs)]]]

IsExcluded == [p \in DirPaths |-> is_excluded_dir(p)]

IsSupported == [f \in FilePaths |-> _is_supported_file(PathName(f))]

\* file_path.lower().endswith(('.jpg', '.jpeg'))
IsJpeg ==
    [f \in FilePaths |-> endswith(lower(f), ".jpg") \/ endswith(lower(f), ".jpeg")]

-----------------------------------------------------------------------------
(* PerformanceTracker.                                                     *)

\* the report_interval of a scanner made without one
DefaultReportInterval == 50

max_recent_samples == 50

\* PerformanceTracker.__init__.  A processing time is modelled by the number
\* of the call that measured it; progress_reports counts the calls of
\* _report_progress.
PerformanceTracker(report_interval) ==
    [report_interval |-> report_interval,
     files_processed |-> 0, files_successful |-> 0, files_failed |-> 0,
     directories_processed |-> 0, recent_processing_times |-> <<>>,
     progress_reports |-> 0]

NewTracker == PerformanceTracker(DefaultReportInterval)

\* a window that gives up its newest sample when it is over its size
drop_newest(samples) ==
    IF Len(samples) > max_recent_samples
    THEN SubSeq(samples, 1, Len(samples) - 1) ELSE samples

\* recent_processing_times.pop(0) when the window is over its size
drop_oldest(samples) ==
    IF Len(samples) > max_recent_samples THEN Tail(samples) ELSE samples

\* end_file_processing that counts no failure
end_file_processing_success_only(t, success) ==
    [t EXCEPT !.files_processed = @ + 1,
              !.files_successful = IF success THEN @ + 1 ELSE @]

\* report_interval is positive
end_file_processing(t, success) ==
    LET n == t.files_processed + 1
    IN  [t EXCEPT !.files_processed = n,
                  !.recent_processing_times = drop_oldest(Append(@, n)),
                  !.progress_reports = IF n % t.report_interval = 0
                                       THEN @ + 1 ELSE @,
                  !.files_successful = IF success THEN @ + 1 ELSE @,
                  !.files_failed = IF success THEN @ ELSE @ + 1]

add_directory(t) == [t EXCEPT !.directories_processed = @ + 1]

-----------------------------------------------------------------------------
(* The operations that write.  Each takes the world w (the tables, the     *)
(* serial counters, the scanner, the history) and gives the world after it *)
(* and what it returns.  A store call is one transaction (db.get_cursor):  *)
(* when it fails it is rolled back and the table is as it was.             *)

World ==
    [directories |-> directories, files |-> files, scan_logs |-> scan_logs,
     ids |-> ids, scanner |-> scanner, hist |-> hist, log |-> log]

FetchOne(rows) == CHOOSE r \in rows : \A q \in rows : r.id <= q.id

\* DatabaseLogger.__init__
DatabaseLogger == [_error_count |-> 0, _warning_count |-> 0]

get_error_count(db_logger) == db_logger._error_count

get_warning_count(db_logger) == db_logger._warning_count

\* get_cursor: the transaction is committed when the block ends normally
\* and rolled back when it raised
commit_without_rollback(table, pending, raised) == table \cup pending

commit(table, pending, raised) == IF raised THEN table ELSE table \cup pending

\* DatabaseLogger.log: one row in scan_logs; the logger's counters are not
\* touched
db_log(w, level, file_path) ==
    [w EXCEPT !.scan_logs = @ \cup {[id |-> w.ids.log + 1,
                                    session_id |-> w.scanner.scan_session_id,
                                    log_level |-> level,
                                    file_path |-> file_path]},
              !.ids.log = @ + 1]

\* a lookup that never finds the row
select_nothing(rows, dirpath) == {}

\* SELECT id FROM directories WHERE dirpath = %s
select_directory(rows, dirpath) == {r \in rows : r.dirpath = dirpath}

\* a handler that lets the exception of the store go on to the caller
store_directory_error_propagate(dir_path) == [ret |-> NULL, raised |-> TRUE]

\* the except clause of _store_directory: the error goes to the console
\* logger and the call returns None
store_directory_error(dir_path) == [ret |-> NULL, raised |-> FALSE]

\* _store_directory without the return in the found branch: the insert runs
\* although the row exists
store_directory_reinsert(w, dir_path, parent_path, fault) ==
    LET result == select_directory(w.directories, dir_path)
        row == [id |-> w.ids.dir + 1, dirpath |-> dir_path, parent_id |-> NULL]
        ret == IF fault THEN NULL ELSE row.id
    IN  [w |-> [w EXCEPT
                 !.directories = IF fault THEN @ ELSE @ \cup {row},
                 !.ids.dir = IF fault THEN @ ELSE @ + 1,
                 !.log.dir = Append(@, [dir_path |-> dir_path,
                                        parent_path |-> parent_path,
                                        existed |-> result # {},
                                        inserted |-> IF fault THEN 0 ELSE 1,
                                        result |-> ret])],
         ret |-> ret, raised |-> FALSE]

\* a parent link that is never set
parent_id_none(parent_result) == NULL

\* parent_id stays None unless the lookup of parent_path gave a row
parent_id_of(parent_result) ==
    IF parent_result = {} THEN NULL ELSE FetchOne(parent_result).id

_store_directory(w, dir_path, parent_path, fault) ==
    LET result == select_directory(w.directories, dir_path)
        parent_result == IF parent_path \in {None, ""} THEN {}
                         ELSE select_directory(w.directories, parent_path)
        parent_id == parent_id_of(parent_result)
        row == [id |-> w.ids.dir + 1, dirpath |-> dir_path, parent_id |-> parent_id]
        insert == ~fault /\ result = {}
        err == store_directory_error(dir_path)
        ret == IF fault THEN err.ret
               ELSE IF result # {} THEN FetchOne(result).id
               ELSE row.id
        track == ~fault /\ w.scanner.performance_reporting
        pending == IF result = {} THEN {row} ELSE {}
    IN  [w |-> [w EXCEPT
                 !.directories = commit(@, pending, fault),
                 !.ids.dir = IF insert THEN @ + 1 ELSE @,
                 !.scanner.tracker = IF track THEN add_directory(@) ELSE @,
                 !.log.dir = Append(@, [dir_path |-> dir_path,
                                        parent_path |-> parent_path,
                                        existed |-> result # {},
                                        inserted |-> IF insert THEN 1 ELSE 0,
                                        result |-> ret])],
         ret |-> ret, raised |-> fault /\ err.raised]

\* _store_file that updates the row of a filepath seen before instead of
\* inserting a new one
store_file_upsert(w, filepath, exif_data, fault) ==
    LET old == {r \in w.files : r.filepath = filepath}
        sanitized_exif == _sanitize_exif_for_json(exif_data)
        row == [id |-> IF old = {} THEN w.ids.file + 1 ELSE FetchOne(old).id,
                filepath |-> filepath, exif |-> json_dumps(sanitized_exif),
                scan_session_id |-> w.scanner.scan_session_id]
        w1 == IF fault THEN db_log(w, "ERROR", filepath)
              ELSE [w EXCEPT !.files = (@ \ old) \cup {row},
                             !.ids.file = IF old = {} THEN @ + 1 ELSE @]
        ret == IF fault THEN NULL ELSE row.id
    IN  [w |-> [w1 EXCEPT
                 !.hist.store_file_calls = @ \cup {filepath},
                 !.log.file = Append(@, [filepath |-> filepath,
                                         scan_session_id |-> w.scanner.scan_session_id,
                                         exif_data |-> exif_data,
                                         sanitized_exif |-> sanitized_exif,
                                         fault |-> fault,
                                         result |-> ret])],
         ret |-> ret]

\* cur.execute: the driver encodes the parameters as UTF-8, which fails for
\* a text that holds a surrogate
insert_encodes(exif_json) == \A k \in DOMAIN exif_json : utf8_encodable(exif_json[k])

\* fault: the INSERT raises.  Neither the sanitizer nor
\* json.dumps(ensure_ascii=False) encodes anything, so no Unicode error
\* leads to the second conversion; every exception ends in the handler,
\* which logs it and returns False.
_store_file(w, filepath, exif_data, fault) ==
    LET unicode_error == FALSE
        sanitized_exif == IF unicode_error THEN encode_replace_values(exif_data)
                          ELSE _sanitize_exif_for_json(exif_data)
        exif_json == json_dumps(sanitized_exif)
        failed == fault \/ ~insert_encodes(exif_json)
        row == [id |-> w.ids.file + 1, filepath |-> filepath, exif |-> exif_json,
                scan_session_id |-> w.scanner.scan_session_id]
        w0 == [w EXCEPT !.files = commit(@, {row}, failed)]
        w1 == IF failed THEN db_log(w0, "ERROR", filepath)
              ELSE [w0 EXCEPT !.ids.file = @ + 1]
        ret == IF failed THEN NULL ELSE row.id
    IN  [w |-> [w1 EXCEPT
                 !.hist.store_file_calls = @ \cup {filepath},
                 !.log.file = Append(@, [filepath |-> filepath,
                                         scan_session_id |-> w.scanner.scan_session_id,
                                         exif_data |-> exif_data,
                                         sanitized_exif |-> sanitized_exif,
                                         fault |-> fault,
                                         result |-> ret])],
         ret |-> ret]

\* outcome "extract": the first library call raises (get_metadata, or open
\* and exifread); outcome "pil": Image.open raises after the exifread tags
\* are in the map.  Without the exifread import (ExifTool is installed but
\* its helper did not start) the fallback ends in a NameError.  Every
\* exception is caught and the map filled so far is returned.
_extract_exif(w, file_path, outcome) ==
    LET fallback == w.scanner.et = None
        imported == config.et = "missing"
        warn == fallback /\ ~w.scanner._fallback_warning_shown
        metadata == fsMeta.tags
        exiftool_data == IF fsMeta.shape = "values"
                         THEN numbered_values(ListOf(metadata))
                         ELSE str_values(metadata)
        tags == exifread_process_file(metadata)
        pil_exif == pil_getexif(metadata)
        pil_data == IF IsJpeg[file_path] /\ outcome # "pil" /\ DOMAIN pil_exif # {}
                    THEN pil_values(pil_exif) ELSE EmptyMap
        error == \/ outcome = "extract"
                 \/ fallback /\ ~imported
                 \/ fallback /\ outcome = "pil"
        exif_data == IF outcome = "extract" THEN EmptyMap
                     ELSE IF ~fallback THEN exiftool_data
                     ELSE IF ~imported THEN EmptyMap
                     ELSE Merge(exifread_values(tags), pil_data)
    IN  [w |-> [w EXCEPT
                 !.hist.extract_calls = @ \cup {file_path},
                 !.scanner._fallback_warning_shown = @ \/ fallback,
                 !.log.fallback = IF warn THEN @ + 1 ELSE @,
                 !.log.extract = Append(@, [file_path |-> file_path,
                                            error |-> error,
                                            exif_data |-> exif_data])],
         ret |-> exif_data]

\* _process_file without its handler: the exception goes on to the caller
on_exception_propagate(w, file_path) ==
    [w |-> w, ret |-> FALSE, raised |-> TRUE]

\* the except branch of _process_file: the error is logged and counted, and
\* the call returns False
on_exception(w, file_path) ==
    LET w1 == db_log(w, "ERROR", file_path)
    IN  [w |-> [w1 EXCEPT !.scanner.tracker =
                    IF w.scanner.performance_reporting
                    THEN end_file_processing(@, FALSE) ELSE @],
         ret |-> FALSE, raised |-> FALSE]

\* outcome: "ok", or the step that fails: "stat", "extract", "pil", "store".
\* raised: an exception leaves _process_file (the handler catches them all)
_process_file(w, file_path, outcome) ==
    LET w0 == [w EXCEPT !.hist.process_calls = @ \cup {file_path}]
        perf == w.scanner.performance_reporting
    IN  IF ~IsSupported[file_path]
        THEN [w |-> w0, ret |-> FALSE, raised |-> FALSE]
        ELSE IF outcome = "stat"
        THEN on_exception(w0, file_path)
        ELSE LET ex == _extract_exif(w0, file_path, outcome)
                 st == _store_file(ex.w, file_path, ex.ret, outcome = "store")
             IN  [w |-> [st.w EXCEPT !.scanner.tracker =
                             IF perf THEN end_file_processing(@, TRUE) ELSE @],
                  ret |-> TRUE, raised |-> FALSE]

-----------------------------------------------------------------------------
(* scan_directory, step by step.                                           *)

NoScanner ==
    [scan_session_id |-> 0, performance_reporting |-> FALSE, tracker |-> NewTracker,
     db_logger |-> DatabaseLogger, et |-> None, _fallback_warning_shown |-> FALSE]

\* pc: "idle" (no call yet), "walk" (at the head of the os.walk loop),
\* "files" (in the loop over filenames), "returned", "raised"
IdleFrame ==
    [pc |-> "idle", directory |-> "", recursive |-> FALSE, total_files |-> 0,
     files_processed |-> 0, processed_dirs |-> {}, stack |-> <<>>,
     dirpath |-> "", dirnames |-> <<>>, filenames |-> <<>>,
     early |-> FALSE, result |-> 0]

EmptyHist ==
    [process_calls |-> {}, extract_calls |-> {}, store_file_calls |-> {},
     dir_calls |-> <<>>, visited |-> {}, pruned |-> {}, faults |-> {},
     reports |-> 0, error_count |-> 0, warning_count |-> 0]

Resting == {"idle", "returned", "raised"}

Faults == IF budget.faults < MaxFaults THEN BOOLEAN ELSE {FALSE}

Outcomes ==
    IF budget.faults < MaxFaults THEN {"ok", "stat", "extract", "store"} ELSE {"ok"}

Put(w) ==
    /\ directories' = w.directories
    /\ files' = w.files
    /\ scan_logs' = w.scan_logs
    /\ ids' = w.ids
    /\ scanner' = w.scanner
    /\ hist' = w.hist
    /\ log' = w.log

Spend(fault) ==
    budget' = [budget EXCEPT !.faults = IF fault THEN @ + 1 ELSE @]

\* a test that only looks whether dirpath is the root
is_subdirectory(dirpath, directory, parent_path, processed_dirs) ==
    dirpath # directory

\* the walk stores dirpath when it is not the root and its parent is among
\* the directories this scan has stored
is_new_subdirectory(dirpath, directory, parent_path, processed_dirs) ==
    dirpath # directory /\ parent_path \in processed_dirs

\* the loop body without the break of a non-recursive scan
after_files_no_break(recursive, stack, dirpath, dirnames) ==
    subpaths(dirpath, dirnames) \o stack

\* the rest of the walk after the files of dirpath: break when not recursive
after_files(recursive, stack, dirpath, dirnames) ==
    IF ~recursive THEN <<>> ELSE subpaths(dirpath, dirnames) \o stack

\* the loop over filenames has nothing left: the end of the loop body, back
\* to the head of the os.walk loop
end_of_body(f) ==
    IF f.pc = "files" /\ f.filenames = <<>>
    THEN [f EXCEPT !.pc = "walk",
                   !.stack = after_files(f.recursive, f.stack, f.dirpath, f.dirnames)]
    ELSE f

\* hist.error_count, hist.warning_count: the Errors and Warnings lines of the
\* last final report.
\* dir, file, extract: the calls of _store_directory, _store_file (fault:
\* the INSERT raised for a reason of the database) and _extract_exif;
\* fallback: how often the fallback message was logged
EmptyLog == [dir |-> <<>>, file |-> <<>>, extract |-> <<>>, fallback |-> 0]

\* config.et: "helper" (ExifTool is installed and its helper started),
\* "init_failed" (installed, but the helper did not start), "missing" (not
\* installed: exifread and PIL are imported instead)
Init ==
    /\ fsFiles \in Trees
    /\ fsMeta = DefaultMetadata
    /\ directories = {}
    /\ files = {}
    /\ scan_logs = {}
    /\ ids = [dir |-> 0, file |-> 0, log |-> 0, session |-> 0]
    /\ scanner = NoScanner
    /\ frame = IdleFrame
    /\ hist = EmptyHist
    /\ log = EmptyLog
    /\ config \in [recursive : BOOLEAN, performance_reporting : BOOLEAN,
                   report_interval : {DefaultReportInterval}, et : {"helper"}]
    /\ budget = [calls |-> 0, faults |-> 0]
    /\ conns = <<>>

\* FileScanner.__init__: a fresh session id, a fresh tracker
NewScanner ==
    /\ frame.pc \in Resting
    /\ scanner = NoScanner \/ frame.pc # "idle"
    /\ budget.calls < MaxCalls
    /\ scanner' = [scan_session_id |-> ids.session + 1,
                   performance_reporting |-> config.performance_reporting,
                   tracker |-> PerformanceTracker(config.report_interval),
                   db_logger |-> DatabaseLogger,
                   et |-> IF config.et = "helper" THEN "ExifToolHelper" ELSE None,
                   _fallback_warning_shown |-> FALSE]
    /\ ids' = [ids EXCEPT !.session = @ + 1]
    /\ frame' = IdleFrame
    /\ hist' = EmptyHist
    /\ UNCHANGED <<conns, fsFiles, fsMeta, directories, files, scan_logs, log, config,
                   budget>>

\* scan_directory up to the os.walk loop: the count, the early return, the
\* root's _store_directory
ScanStart ==
    /\ scanner # NoScanner
    /\ frame.pc \in Resting
    /\ budget.calls < MaxCalls
    /\ \E directory \in Roots, fault \in Faults :
        LET recursive == config.recursive
            total_files == TotalFiles[fsFiles][directory][recursive]
            f0 == [IdleFrame EXCEPT !.directory = directory,
                                    !.recursive = recursive,
                                    !.total_files = total_files]
            st == _store_directory([World EXCEPT !.hist = EmptyHist],
                                   directory, None, fault)
        IN  IF total_files = 0
            THEN /\ ~fault
                 /\ frame' = [f0 EXCEPT !.pc = "returned", !.early = TRUE]
                 /\ hist' = EmptyHist
                 /\ budget' = [budget EXCEPT !.calls = @ + 1]
                 /\ UNCHANGED <<directories, files, scan_logs, ids, scanner, log>>
            ELSE /\ frame' = [f0 EXCEPT !.pc = IF st.raised THEN "raised" ELSE "walk",
                                        !.processed_dirs = {directory},
                                        !.stack = IF IsDir[directory]
                                                  THEN <<directory>> ELSE <<>>]
                 /\ Put([st.w EXCEPT
                          !.hist.dir_calls = Append(@,
                              [dir_path |-> directory, parent_path |-> None,
                               result |-> st.ret]),
                          !.hist.faults = IF fault THEN @ \cup {directory} ELSE @])
                 /\ budget' = [budget EXCEPT !.calls = @ + 1,
                                             !.faults = IF fault THEN @ + 1 ELSE @]
    /\ UNCHANGED <<conns, fsFiles, fsMeta, config>>

\* the loop body for the next dirpath of os.walk, up to its first file: the
\* exclusion test and the subdirectory's _store_directory (and the end of
\* the body when the directory lists no file)
WalkDir ==
    /\ frame.pc = "walk"
    /\ frame.stack # <<>>
    /\ LET dirpath == Head(frame.stack)
           dirnames == DirNames[dirpath]
           filenames == FileNames[fsFiles][dirpath]
           parent_path == ParentOf[dirpath]
           store == is_new_subdirectory(dirpath, frame.directory, parent_path,
                                        frame.processed_dirs)
       IN  IF IsExcluded[dirpath]
           THEN /\ frame' = [frame EXCEPT
                               !.stack = subpaths(dirpath, prune(dirnames))
                                         \o Tail(frame.stack)]
                /\ hist' = [hist EXCEPT !.pruned = @ \cup {dirpath}]
                /\ UNCHANGED <<directories, files, scan_logs, ids, scanner, log,
                               budget>>
           ELSE \E fault \in Faults :
                LET st == _store_directory(World, dirpath, parent_path, fault)
                    w1 == IF store
                          THEN [st.w EXCEPT
                                 !.hist.dir_calls = Append(@,
                                     [dir_path |-> dirpath,
                                      parent_path |-> parent_path,
                                      result |-> st.ret]),
                                 !.hist.faults = IF fault THEN @ \cup {dirpath}
                                                 ELSE @]
                          ELSE World
                IN  /\ fault => store
                    /\ frame' = end_of_body([frame EXCEPT
                                   !.pc = IF store /\ st.raised THEN "raised"
                                          ELSE "files",
                                   !.stack = Tail(@),
                                   !.dirpath = dirpath,
                                   !.dirnames = dirnames,
                                   !.filenames = filenames,
                                   !.processed_dirs = IF store THEN @ \cup {dirpath}
                                                      ELSE @])
                    /\ Put([w1 EXCEPT !.hist.visited = @ \cup {dirpath}])
                    /\ Spend(fault)
    /\ UNCHANGED <<conns, fsFiles, fsMeta, config>>

\* one turn of the loop over filenames: _process_file and the count (and the
\* end of the loop body after the last file)
ProcessFile ==
    /\ frame.pc = "files"
    /\ frame.filenames # <<>>
    /\ \E outcome \in Outcomes :
        LET filename == Head(frame.filenames)
            file_path == join(frame.dirpath, filename)
            fault == outcome # "ok"
            r == _process_file(World, file_path, outcome)
        IN  /\ fault => IsSupported[file_path]
            /\ frame' = IF r.raised
                        THEN [frame EXCEPT !.pc = "raised"]
                        ELSE end_of_body([frame EXCEPT
                               !.filenames = Tail(@),
                               !.files_processed = IF r.ret THEN @ + 1 ELSE @])
            /\ Put([r.w EXCEPT !.hist.faults = IF fault THEN @ \cup {file_path}
                                               ELSE @])
            /\ Spend(fault)
    /\ UNCHANGED <<conns, fsFiles, fsMeta, config>>

\* after the loop: the final report of the tracker (its success rate divides
\* by the tracker's files_processed), then the return
FinishScan ==
    /\ frame.pc = "walk"
    /\ frame.stack = <<>>
    /\ IF scanner.performance_reporting /\ scanner.tracker.files_processed = 0
       THEN /\ frame' = [frame EXCEPT !.pc = "raised"]
            /\ hist' = hist
       ELSE /\ frame' = [frame EXCEPT !.pc = "returned",
                                      !.result = frame.files_processed]
            /\ hist' = IF scanner.performance_reporting
                       THEN [hist EXCEPT
                              !.reports = @ + 1,
                              !.error_count = get_error_count(scanner.db_logger),
                              !.warning_count = get_warning_count(scanner.db_logger)]
                       ELSE hist
    /\ UNCHANGED <<conns, fsFiles, fsMeta, directories, files, scan_logs, ids, scanner,
                   log, config, budget>>

\* the paths a caller outside a scan passes to _store_directory
DirectPaths == {"/data/sub"}

\* _store_directory called on its own, between scans
StoreDirectory ==
    /\ scanner # NoScanner
    /\ frame.pc \in Resting
    /\ budget.calls < MaxCalls
    /\ \E dir_path \in DirectPaths, parent_path \in {None},
          fault \in Faults :
           /\ Put(_store_directory(World, dir_path, parent_path, fault).w)
           /\ budget' = [budget EXCEPT !.calls = @ + 1,
                                       !.faults = IF fault THEN @ + 1 ELSE @]
    /\ UNCHANGED <<conns, fsFiles, fsMeta, frame, config>>

Next ==
    \/ NewScanner
    \/ ScanStart
    \/ WalkDir
    \/ ProcessFile
    \/ FinishScan
    \/ StoreDirectory

Spec == Init /\ [][Next]_vars

-----------------------------------------------------------------------------
(* The handling of one file's metadata, for every metadata map of the      *)
(* model and every state of the ExifTool installation: _process_file and   *)
(* _store_file called on their own.                                        *)

InitExif ==
    /\ fsFiles = {"/data/a.jpg", "/data/sub/d.DNG"}
    /\ fsMeta \in [shape : Shapes, tags : TagMaps]
    /\ directories = {}
    /\ files = {}
    /\ scan_logs = {}
    /\ ids = [dir |-> 0, file |-> 0, log |-> 0, session |-> 0]
    /\ scanner = NoScanner
    /\ frame = IdleFrame
    /\ hist = EmptyHist
    /\ log = EmptyLog
    /\ config \in [recursive : {TRUE}, performance_reporting : {TRUE},
                   report_interval : {DefaultReportInterval},
                   et : {"helper", "init_failed", "missing"}]
    /\ config.et # "helper" => fsMeta.shape = "dict"
    /\ budget = [calls |-> 0, faults |-> 0]
    /\ conns = <<>>

\* the call from outside is over
Ended(raised) == [IdleFrame EXCEPT !.pc = IF raised THEN "raised" ELSE "returned"]

\* _process_file called on its own
ProcessOne ==
    /\ scanner # NoScanner
    /\ frame.pc \in Resting
    /\ budget.calls < MaxCalls
    /\ \E file_path \in fsFiles, outcome \in Outcomes \cup {"pil"} :
        LET fault == outcome # "ok"
            r == _process_file(World, file_path, outcome)
        IN  /\ outcome = "pil" => /\ budget.faults < MaxFaults
                                  /\ scanner.et = None
                                  /\ config.et = "missing"
                                  /\ IsJpeg[file_path]
            /\ frame' = Ended(r.raised)
            /\ Put([r.w EXCEPT !.hist.faults = IF fault THEN @ \cup {file_path}
                                               ELSE @])
            /\ budget' = [budget EXCEPT !.calls = @ + 1,
                                        !.faults = IF fault THEN @ + 1 ELSE @]
    /\ UNCHANGED <<conns, fsFiles, fsMeta, config>>

\* _store_file called on its own, with any map
StoreFile ==
    /\ scanner # NoScanner
    /\ frame.pc \in Resting
    /\ budget.calls < MaxCalls
    /\ \E filepath \in fsFiles, fault \in Faults :
        /\ frame' = Ended(FALSE)
        /\ Put(_store_file(World, filepath, fsMeta.tags, fault).w)
        /\ budget' = [budget EXCEPT !.calls = @ + 1,
                                    !.faults = IF fault THEN @ + 1 ELSE @]
    /\ UNCHANGED <<conns, fsFiles, fsMeta, config>>

NextExif ==
    \/ NewScanner
    \/ ProcessOne
    \/ StoreFile

SpecExif == InitExif /\ [][NextExif]_vars

-----------------------------------------------------------------------------
(* The tracker on its own: end_file_processing called any number of times, *)
(* for several report intervals.                                           *)

ReportIntervals == {1, 3, DefaultReportInterval}

InitTracker ==
    /\ fsFiles = {"/data/a.jpg"}
    /\ fsMeta = DefaultMetadata
    /\ directories = {}
    /\ files = {}
    /\ scan_logs = {}
    /\ ids = [dir |-> 0, file |-> 0, log |-> 0, session |-> 0]
    /\ scanner = NoScanner
    /\ frame = IdleFrame
    /\ hist = EmptyHist
    /\ log = EmptyLog
    /\ config \in [recursive : {TRUE}, performance_reporting : {TRUE},
                   report_interval : ReportIntervals, et : {"helper"}]
    /\ budget = [calls |-> 0, faults |-> 0]
    /\ conns = <<>>

\* performance_tracker.end_file_processing called on its own
EndFileProcessing ==
    /\ scanner # NoScanner
    /\ scanner.performance_reporting
    /\ scanner.tracker.files_processed < MaxSamples
    /\ \E success \in BOOLEAN :
        scanner' = [scanner EXCEPT !.tracker = end_file_processing(@, success)]
    /\ UNCHANGED <<conns, fsFiles, fsMeta, directories, files, scan_logs, ids, frame,
                   hist, log, config, budget>>

NextTracker ==
    \/ NewScanner
    \/ EndFileProcessing

SpecTracker == InitTracker /\ [][NextTracker]_vars

-----------------------------------------------------------------------------
(* Two scans side by side, each with its own scanner (made as scan_cli     *)
(* makes it, without a tracker) and its own connection to the one store.   *)
(* A _store_directory call is a transaction of up to three steps: the      *)
(* SELECT, the INSERT, the commit.  A statement sees the rows committed     *)
(* before it (PostgreSQL's default isolation, read committed).             *)

Scans == {1, 2}

ScanPaths == {"/data", "/data/sub"}

\* pc: "idle" (between calls), "absent" (the SELECT found no row),
\* "inserted" (the INSERT is done and not committed); calls: the calls that
\* have returned, [dir_path, ret]
IdleConn ==
    [pc |-> "idle", dir_path |-> "", parent_path |-> None, pending |-> {},
     calls |-> <<>>]

InitConcurrent ==
    /\ fsFiles = {"/data/a.jpg", "/data/sub/d.DNG"}
    /\ fsMeta = DefaultMetadata
    /\ directories = {}
    /\ files = {}
    /\ scan_logs = {}
    /\ ids = [dir |-> 0, file |-> 0, log |-> 0, session |-> 0]
    /\ scanner = NoScanner
    /\ frame = IdleFrame
    /\ hist = EmptyHist
    /\ log = EmptyLog
    /\ config \in [recursive : {TRUE}, performance_reporting : {FALSE},
                   report_interval : {DefaultReportInterval}, et : {"helper"}]
    /\ budget = [calls |-> 0, faults |-> 0]
    /\ conns = [s \in Scans |-> IdleConn]

\* dirpath is the table's unique key: an INSERT of a path that a committed
\* row holds is refused
unique_violation(rows, dirpath) == select_directory(rows, dirpath) # {}

\* the INSERT waits while another open transaction has inserted the path
waits(s, dirpath) ==
    \E t \in Scans \ {s} : select_directory(conns[t].pending, dirpath) # {}

Returned(c, ret) ==
    [c EXCEPT !.pc = "idle", !.pending = {},
              !.calls = Append(@, [dir_path |-> c.dir_path, ret |-> ret])]

\* scan s enters _store_directory: the SELECT; a row found is returned (and
\* the empty transaction committed)
Lookup(s) ==
    /\ conns[s].pc = "idle"
    /\ Len(conns[s].calls) < MaxCalls
    /\ \E dir_path \in ScanPaths :
        LET parent_path == IF dir_path = "/data" THEN None ELSE PathParent(dir_path)
            result == select_directory(directories, dir_path)
            c == [conns[s] EXCEPT !.dir_path = dir_path,
                                  !.parent_path = parent_path]
        IN  conns' = [conns EXCEPT ![s] =
                        IF result # {} THEN Returned(c, FetchOne(result).id)
                        ELSE [c EXCEPT !.pc = "absent"]]
    /\ UNCHANGED <<fsFiles, fsMeta, directories, files, scan_logs, ids, scanner,
                   frame, hist, log, config, budget>>

\* the lookup of the parent and the INSERT; when it is refused the
\* transaction is rolled back and the call returns None
Insert(s) ==
    /\ conns[s].pc = "absent"
    /\ ~waits(s, conns[s].dir_path)
    /\ LET c == conns[s]
           parent_result == IF c.parent_path \in {None, ""} THEN {}
                            ELSE select_directory(directories, c.parent_path)
           row == [id |-> ids.dir + 1, dirpath |-> c.dir_path,
                   parent_id |-> parent_id_of(parent_result)]
           err == store_directory_error(c.dir_path)
       IN  IF unique_violation(directories, c.dir_path)
           THEN /\ conns' = [conns EXCEPT ![s] = Returned(c, err.ret)]
                /\ ids' = ids
           ELSE /\ conns' = [conns EXCEPT ![s] = [c EXCEPT !.pc = "inserted",
                                                           !.pending = {row}]]
                /\ ids' = [ids EXCEPT !.dir = @ + 1]
    /\ UNCHANGED <<fsFiles, fsMeta, directories, files, scan_logs, scanner,
                   frame, hist, log, config, budget>>

\* the with block ends: the commit, and the call returns the new id
Commit(s) ==
    /\ conns[s].pc = "inserted"
    /\ directories' = commit(directories, conns[s].pending, FALSE)
    /\ conns' = [conns EXCEPT ![s] =
                    Returned(conns[s], FetchOne(conns[s].pending).id)]
    /\ UNCHANGED <<fsFiles, fsMeta, files, scan_logs, ids, scanner, frame, hist,
                   log, config, budget>>

NextConcurrent ==
    \/ \E s \in Scans : Lookup(s)
    \/ \E s \in Scans : Insert(s)
    \/ \E s \in Scans : Commit(s)

SpecConcurrent == InitConcurrent /\ [][NextConcurrent]_vars

-----------------------------------------------------------------------------
(* Claims.  What the claims speak of, in the claims' own words.            *)

\* the exclusion rule as specified: a configured pattern matches the name
\* without regard to case, or the name begins with a dot
ExclusionRule(name) ==
    /\ name # ""
    /\ \/ \E i \in 1..Len(EXCLUDED_DIRS) :
              fnmatch(lower(name), lower(EXCLUDED_DIRS[i]))
       \/ Ch(name, 1) = "."

RuleExcludes == [p \in DirPaths |-> ExclusionRule(basename(p))]

\* x lies below directory d, at any depth
Below(x, d) == Len(x) > Len(d) + 1 /\ SubSeq(x, 1, Len(d) + 1) = d \o "/"

BelowOf == [d \in DirPaths |-> {x \in DirPaths \cup FilePaths : Below(x, PathStr(d))}]

\* the extension of a file name, compared without regard to case, is supported
SupportedExtension(name) ==
    LET i == RFind(name, ".")
    IN  i > 0 /\ lower(SubSeq(name, i + 1, Len(name))) \in SeqToSet(SUPPORTED_RAW_FORMATS)

SupportedName == [f \in FilePaths |-> SupportedExtension(basename(f))]

SupportedFiles == {f \in FilePaths : SupportedName[f]}

\* the directory a file lies in, and a directory path without trailing
\* separators
DirOf == [f \in FilePaths |-> PathParent(f)]

Canonical == [p \in DirPaths |-> PathStr(p)]

\* the supported files of tree fs under root that have no rule-excluded
\* directory on their path below the root, and those that have one
InScope ==
    [fs \in Trees |-> [root \in DirPaths |->
        {f \in fs \cap SupportedFiles \cap BelowOf[root] :
            \A d \in BelowOf[root] \cap DirPaths :
                f \in BelowOf[d] => ~RuleExcludes[d]}]]

OutOfScope ==
    [fs \in Trees |-> [root \in DirPaths |->
        ((fs \cap SupportedFiles) \cap BelowOf[root]) \ InScope[fs][root]]]

DirCallPaths == {hist.dir_calls[i].dir_path : i \in 1..Len(hist.dir_calls)}

\* C1: a recursive scan of a directory (whose own name is not excluded, and
\* in which nothing failed) returns the number of supported files that have
\* no excluded directory on their path below the root, and the supported
\* files of excluded subtrees are never passed to _process_file nor stored.
C1_ScanCountsInScopeFiles ==
    ( /\ frame.pc = "returned"
      /\ frame.recursive
      /\ IsDir[frame.directory]
      /\ ~RuleExcludes[frame.directory]
      /\ hist.faults = {} )
    => /\ frame.result = Cardinality(InScope[fsFiles][frame.directory])
       /\ hist.process_calls \cap OutOfScope[fsFiles][frame.directory] = {}
       /\ hist.store_file_calls \cap OutOfScope[fsFiles][frame.directory] = {}

\* C2: the directories table holds at most one row for each path.
C2_OneDirectoryRecordPerPath ==
    \A r1 \in directories, r2 \in directories :
        r1.dirpath = r2.dirpath => r1 = r2

\* a path has been passed to _store_directory twice, both calls succeeding
C2_Witness ==
    \E i \in 1..Len(log.dir), j \in 1..Len(log.dir) :
        /\ i < j
        /\ log.dir[i].dir_path = log.dir[j].dir_path
        /\ log.dir[i].result # NULL
        /\ log.dir[j].result # NULL

\* C3: a _store_directory call that finds the row inserts nothing and
\* returns the row's id; successful calls with the same dir_path return the
\* same id, whatever their parent_path, and leave one row for the path.
C3_StoreDirectoryIdempotent ==
    \A i \in 1..Len(log.dir) :
        LET e == log.dir[i]
            rows == {r \in directories : r.dirpath = e.dir_path}
        IN  e.result # NULL =>
              /\ e.existed => e.inserted = 0
              /\ Cardinality(rows) = 1
              /\ \A r \in rows : r.id = e.result
              /\ \A j \in 1..Len(log.dir) :
                    (log.dir[j].dir_path = e.dir_path /\ log.dir[j].result # NULL)
                    => log.dir[j].result = e.result

\* two successful calls with the same dir_path and different parent_path
C3_Witness ==
    \E i \in 1..Len(log.dir), j \in 1..Len(log.dir) :
        /\ i < j
        /\ log.dir[i].dir_path = log.dir[j].dir_path
        /\ log.dir[i].parent_path # log.dir[j].parent_path
        /\ log.dir[i].result # NULL
        /\ log.dir[j].existed
        /\ log.dir[j].result = log.dir[i].result

\* the number of rows of files for a filepath and a session, and the number
\* of _store_file calls for them that returned an id
FileRows(f, sid) ==
    Cardinality({r \in files : r.filepath = f /\ r.scan_session_id = sid})

FileStores(f, sid) ==
    Cardinality({i \in 1..Len(log.file) :
        /\ log.file[i].filepath = f
        /\ log.file[i].scan_session_id = sid
        /\ log.file[i].result # NULL})

C4_RowPerStore ==
    /\ \A i \in 1..Len(log.file) :
          FileRows(log.file[i].filepath, log.file[i].scan_session_id)
              = FileStores(log.file[i].filepath, log.file[i].scan_session_id)
    /\ \A r \in files :
          FileStores(r.filepath, r.scan_session_id) > 0
    /\ \A r1 \in files, r2 \in files : r1.id = r2.id => r1 = r2

\* C4: no step changes or removes a row of files, and after every step the
\* table holds, for every filepath and session, one row per _store_file
\* call that returned an id, tagged with the session of the scanner that
\* made the call: a file stored in two sessions has two rows.
C4_FilesAppendOnly ==
    [][files \subseteq files' /\ C4_RowPerStore']_vars

\* a file has been stored in two sessions and has one row for each
C4_Witness ==
    \E r1 \in files, r2 \in files :
        /\ r1.filepath = r2.filepath
        /\ r1.scan_session_id # r2.scan_session_id
        /\ Cardinality({r \in files : r.filepath = r1.filepath}) = 2
        /\ frame.pc = "returned"

\* C5: for every directory the walk has decided on, the decision was
\* "excluded" exactly when the directory's basename matches a configured
\* pattern without regard to case or begins with a dot.
C5_WalkerDecisionIsExclusionRule ==
    \A d \in hist.visited \cup hist.pruned :
        (d \in hist.pruned) <=> RuleExcludes[d]

C7_UnsupportedFileSkipped ==
    [][ ( /\ frame.pc = "files"
          /\ frame.filenames # <<>>
          /\ ~SupportedName[join(frame.dirpath, Head(frame.filenames))] )
        => /\ files' = files
           /\ scan_logs' = scan_logs
           /\ scanner' = scanner
           /\ log' = log
           /\ hist'.extract_calls = hist.extract_calls
           /\ hist'.store_file_calls = hist.store_file_calls
           /\ hist'.faults = hist.faults
           /\ frame'.files_processed = frame.files_processed
           /\ frame'.pc \in {"files", "walk"} ]_vars

\* the scan has passed b.txt to _process_file
C7_Witness ==
    /\ "/data/b.txt" \in hist.process_calls
    /\ frame.pc = "returned"
    /\ frame.result > 0

\* the supported files that lie directly in the root of the running scan
RootFiles ==
    {f \in fsFiles \cap SupportedFiles : DirOf[f] = Canonical[frame.directory]}

\* C8: in a scan with recursive = false, only files that lie directly in the
\* root are passed to _process_file, the count does not exceed the number of
\* supported files there, the walk visits no other directory, and
\* _store_directory is called for the root only.
C8_NonRecursiveOnlyRoot ==
    (~frame.recursive /\ frame.pc # "idle")
    => /\ \A f \in hist.process_calls : DirOf[f] = Canonical[frame.directory]
       /\ frame.files_processed <= Cardinality(RootFiles)
       /\ hist.visited \subseteq {frame.directory}
       /\ DirCallPaths \subseteq {frame.directory}

\* a non-recursive scan of /data has returned its count while sub holds a
\* supported file
C8_Witness ==
    /\ ~frame.recursive
    /\ frame.pc = "returned"
    /\ frame.directory = "/data"
    /\ frame.result = 1
    /\ "/data/sub/d.DNG" \in fsFiles

\* C9: a scan_directory call whose root is no directory ends by failing (it
\* does not return like the scan of a directory without files), and it has
\* called neither _store_directory nor _store_file.
C9_InvalidRootFails ==
    (frame.pc \in {"returned", "raised"} /\ ~IsDir[frame.directory])
    => /\ frame.pc = "raised"
       /\ hist.dir_calls = <<>>
       /\ hist.store_file_calls = {}

\* the files that os.walk lists in a directory
FilesIn ==
    [fs \in Trees |-> [d \in DirPaths |->
        {join(d, FileNames[fs][d][i]) : i \in 1..Len(FileNames[fs][d])}]]

\* C10: no exception leaves scan_directory after a file has failed, and when
\* the scan has returned from its walk every file of every directory it
\* visited has been passed to _process_file.
C10_FileFailureDoesNotStopWalk ==
    /\ frame.pc = "raised" => hist.faults \cap FilePaths = {}
    /\ (frame.pc = "returned" /\ ~frame.early)
       => \A d \in hist.visited : FilesIn[fsFiles][d] \subseteq hist.process_calls

\* a scan has returned although its first file failed, and it went on to the
\* file of a directory visited later
C10_Witness ==
    /\ frame.pc = "returned"
    /\ "/data/a.jpg" \in hist.faults
    /\ "/data/sub/d.DNG" \in hist.process_calls
    /\ frame.result >= 1

\* the rows of files that carry the session of the scanner in use, and the
\* _store_file calls of that session that failed
SessionRows == {r \in files : r.scan_session_id = scanner.scan_session_id}

SessionStoreFailures ==
    {i \in 1..Len(log.file) :
        /\ log.file[i].scan_session_id = scanner.scan_session_id
        /\ log.file[i].result = NULL}

\* C11: a file whose storage failed is counted as failed: the count of the
\* scan and the tracker's files_successful never exceed the number of rows
\* the scanner's session has written to files, and files_failed is at least
\* the number of the session's _store_file calls that failed.
C11_StoreFailureCountedFailed ==
    /\ frame.files_processed <= Cardinality(SessionRows)
    /\ scanner.performance_reporting
       => /\ scanner.tracker.files_successful <= Cardinality(SessionRows)
          /\ scanner.tracker.files_failed >= Cardinality(SessionStoreFailures)

\* the directories whose _store_directory call failed in the running scan
FailedDirs ==
    {hist.dir_calls[i].dir_path :
        i \in {j \in 1..Len(hist.dir_calls) : hist.dir_calls[j].result = NULL}}

\* the paths os.walk reaches next from a directory
Children == [d \in DirPaths |-> SeqToSet(subpaths(d, DirNames[d]))]

\* C12: a _store_directory call that fails returns the sentinel and the scan
\* does not end by raising; when the scan has returned, the directory (unless
\* the walk pruned it as excluded) has been visited, all its files have been
\* passed to _process_file, and in a recursive scan the walk has reached
\* each of its subdirectories, visiting those its test does not exclude.
C12_StoreDirectoryFailureDoesNotAbort ==
    \A d \in FailedDirs \ hist.pruned :
        /\ frame.pc # "raised"
        /\ frame.pc = "returned"
           => /\ d \in hist.visited
              /\ FilesIn[fsFiles][d] \subseteq hist.process_calls
              /\ frame.recursive
                 => \A c \in Children[d] :
                       IF IsExcluded[c] THEN c \in hist.pruned
                       ELSE c \in hist.visited

\* the store of /data failed, and the scan returned after processing the
\* files of /data and of its subdirectory sub
C12_Witness ==
    /\ frame.pc = "returned"
    /\ "/data" \in FailedDirs
    /\ {"/data/a.jpg", "/data/sub/d.DNG"} \subseteq hist.process_calls
    /\ "/data/sub" \in hist.visited
    /\ "/data/3StarQ70" \in hist.pruned

\* C13: every scan_directory call that returns has emitted the final report
\* exactly once (stated for scanners with performance tracking enabled, the
\* only ones that hold a tracker to report from).
C13_FinalReportOnce ==
    (frame.pc = "returned" /\ scanner.performance_reporting) => hist.reports = 1

\* the keys under which the map would hold the items that the library in
\* use hands over as bytes objects
BinaryKeys ==
    LET tags == fsMeta.tags
        binary == {k \in DOMAIN tags : tags[k].type = "bytes"}
        items == ListOf(tags)
    IN  IF config.et # "helper" THEN {PilKey(k) : k \in binary}
        ELSE IF fsMeta.shape = "values"
             THEN {ValueKeys[i] : i \in {j \in 1..Len(items) : items[j].type = "bytes"}}
        ELSE binary

IsControl(c) == c < 32 /\ c \notin {9, 10, 13}

WithoutControls(v) == SelectSeq(v, LAMBDA c : ~IsControl(c))

\* C15: the map the sanitizer returned in a _store_file call has the keys of
\* its input, holds only strings without NUL or other control characters
\* (tab, newline and carriage return apart), and for an input string holds
\* all its other characters in their order.
C15_SanitizerRemovesControlsOnly ==
    \A i \in 1..Len(log.file) :
        LET in == log.file[i].exif_data
            out == log.file[i].sanitized_exif
        IN  /\ DOMAIN out = DOMAIN in
            /\ \A k \in DOMAIN out :
                  /\ out[k].type = "str"
                  /\ \A n \in 1..Len(out[k].v) : ~IsControl(out[k].v[n])
                  /\ in[k].type = "str" => out[k].v = WithoutControls(in[k].v)

\* a text with a NUL, a tab, a unit separator, a space and a DEL has been
\* sanitized, next to a value that is no string
C15_Witness ==
    \E i \in 1..Len(log.file) :
        LET in == log.file[i].exif_data
            out == log.file[i].sanitized_exif
        IN  /\ DOMAIN in = {"Make", "Thumb"}
            /\ in["Make"] = Str(<<65, 0, 9, 31, 32, 127>>)
            /\ out["Make"] = Str(<<65, 9, 32, 127>>)
            /\ in["Thumb"].type = "int"

\* a map with a string that UTF-8 cannot encode
Unencodable(m) == \E k \in DOMAIN m : m[k].type = "str" /\ ~utf8_encodable(m[k].v)

\* C16: a _store_file call whose map holds a string that cannot be encoded
\* (and that the database did not fail) returns an id, and files holds the
\* row with that id, with the value in a form that can be encoded.
C16_UnencodableValueDegrades ==
    \A i \in 1..Len(log.file) :
        (Unencodable(log.file[i].exif_data) /\ ~log.file[i].fault)
        => /\ log.file[i].result # NULL
           /\ \E r \in files :
                 /\ r.id = log.file[i].result
                 /\ \A k \in DOMAIN r.exif : utf8_encodable(r.exif[k])

\* C17: all rows of files and of scan_logs written in one run of the
\* orchestrator, which constructs one scanner for each of its targets, carry
\* one and the same session id.
C17_OneSessionPerInvocation ==
    Cardinality({r.scan_session_id : r \in files}
                \cup {r.session_id : r \in scan_logs}) <= 1

\* C18: a scan ends the same way with tracking enabled as with it disabled:
\* with tracking disabled no scan ends by raising (the first conjunct), so
\* with tracking enabled none does (the second).
C18_TrackingDoesNotChangeTermination ==
    /\ ~scanner.performance_reporting => frame.pc # "raised"
    /\ scanner.performance_reporting => frame.pc # "raised"

\* C19: the fallback message is logged at most once, however many files go
\* through the fallback and however many scanners are constructed.
C19_FallbackMessageOnce == log.fallback <= 1

\* the parent directory of a directory path, as a path
ParentDir == [d \in DirPaths |-> PathParent(d)]

\* C20: the first _store_directory call of a scan is for the root, with
\* parent_path None; every later one is for another directory, with its
\* parent directory as parent_path, and follows a call (successful or not)
\* for that parent in the same scan.
C20_ParentReconciledFirst ==
    \A j \in 1..Len(hist.dir_calls) :
        LET c == hist.dir_calls[j]
        IN  IF j = 1
            THEN c.dir_path = frame.directory /\ c.parent_path = None
            ELSE /\ c.dir_path # frame.directory
                 /\ c.parent_path # None
                 /\ c.parent_path = ParentDir[c.dir_path]
                 /\ \E i \in 1..(j - 1) : hist.dir_calls[i].dir_path = c.parent_path

\* the store of the root failed and the scan went on to store sub, and
\* returned
C20_Witness ==
    /\ frame.pc = "returned"
    /\ Len(hist.dir_calls) >= 2
    /\ hist.dir_calls[1].dir_path = "/data"
    /\ hist.dir_calls[1].result = NULL
    /\ hist.dir_calls[2].dir_path = "/data/sub"
    /\ hist.dir_calls[2].result # NULL

\* C21: within one scan, every file passed to _store_file lies in a
\* directory for which this scan has called _store_directory before.
C21_DirectoryStoredBeforeItsFiles ==
    \A f \in hist.store_file_calls :
        \E i \in 1..Len(hist.dir_calls) :
            Canonical[hist.dir_calls[i].dir_path] = DirOf[f]

\* the rows a call found in the table when it inserted row r with
\* parent_path: rows are never deleted and ids grow
RowsBefore(r, parent_path) ==
    {p \in directories : p.id < r.id /\ p.dirpath = parent_path}

\* C22: every inserted directory row has as parent_id the id of the row that
\* held parent_path when it was inserted, and null when parent_path was None
\* or no such row existed; and every parent_id that is not null is the id of
\* a row in the table whose path is the parent directory of the row's path.
C22_ParentLinkOfInsertedRecord ==
    /\ \A i \in 1..Len(log.dir) :
        LET e == log.dir[i]
        IN  e.inserted = 1 =>
              \E r \in directories :
                /\ r.id = e.result
                /\ r.dirpath = e.dir_path
                /\ IF e.parent_path = None \/ RowsBefore(r, e.parent_path) = {}
                   THEN r.parent_id = NULL
                   ELSE \E p \in RowsBefore(r, e.parent_path) : r.parent_id = p.id
    /\ \A r \in directories :
        r.parent_id # NULL =>
            \E p \in directories :
                p.id = r.parent_id /\ p.dirpath = ParentDir[r.dirpath]

\* a scan has returned that inserted the root without a parent and a
\* subdirectory linked to the root's row
C22_Witness ==
    /\ frame.pc = "returned"
    /\ \E r, p \in directories :
        /\ p.parent_id = NULL
        /\ p.dirpath = frame.directory
        /\ r.parent_id = p.id
        /\ \E i \in 1..Len(log.dir) :
            log.dir[i].inserted = 1 /\ log.dir[i].result = r.id

\* C23: when scan_directory has returned for a root that is a directory, and
\* the store did not refuse the root's write, a directories row for the root
\* exists, whether or not the tree holds a supported file.
C23_RootRecordAfterScan ==
    (/\ frame.pc = "returned"
     /\ IsDir[frame.directory]
     /\ frame.directory \notin hist.faults)
        => \E r \in directories : r.dirpath = frame.directory

\* the writes the calls so far have reported as done: the directory rows
\* inserted and the file rows inserted, as [id, path]
DirWritesDone ==
    {[id |-> log.dir[i].result, path |-> log.dir[i].dir_path] :
        i \in {j \in 1..Len(log.dir) : log.dir[j].inserted = 1}}

FileWritesDone ==
    {[id |-> log.file[i].result, path |-> log.file[i].filepath] :
        i \in {j \in 1..Len(log.file) : log.file[j].result # NULL}}

\* C24: every directory write and every file write is one atomic unit, so at
\* every point of a scan, also after a failed write and after an abort, the
\* tables hold exactly the rows of the writes that succeeded so far: a write
\* that failed has left nothing behind.
C24_StoreHoldsTheCommittedWrites ==
    /\ {[id |-> r.id, path |-> r.dirpath] : r \in directories} = DirWritesDone
    /\ {[id |-> r.id, path |-> r.filepath] : r \in files} = FileWritesDone

\* a scan in which a directory write failed between writes that succeeded,
\* and a file write has succeeded
C24_Witness ==
    /\ frame.pc = "returned"
    /\ \E i, j, k \in 1..Len(log.dir) :
        /\ i < j /\ j < k
        /\ log.dir[i].inserted = 1
        /\ log.dir[j].result = NULL
        /\ log.dir[k].inserted = 1
    /\ files # {}

Min(a, b) == IF a < b THEN a ELSE b

\* C25: after any number of end_file_processing calls the window
\* recent_processing_times holds the most recent samples, at most
\* max_recent_samples of them, in the order they came: with n calls so far,
\* the samples of calls n - len + 1 .. n.
C25_WindowHoldsMostRecentSamples ==
    LET t == scanner.tracker
        w == t.recent_processing_times
        n == t.files_processed
    IN  /\ Len(w) = Min(n, max_recent_samples)
        /\ \A i \in 1..Len(w) : w[i] = n - Len(w) + i

\* the window has overflowed twice: the two oldest samples are gone
C25_Witness ==
    /\ scanner.tracker.files_processed = max_recent_samples + 2
    /\ Len(scanner.tracker.recent_processing_times) = max_recent_samples
    /\ scanner.tracker.recent_processing_times[1] = 3

\* C26: when two scans reconcile the same path side by side, no interleaving
\* leaves two directories rows for the path, and the calls for the path
\* return the same id.
C26_ConcurrentReconcileAgrees ==
    /\ \A path \in ScanPaths :
        Cardinality(select_directory(directories, path)) <= 1
    /\ \A s, t \in Scans :
        \A i \in 1..Len(conns[s].calls), j \in 1..Len(conns[t].calls) :
            conns[s].calls[i].dir_path = conns[t].calls[j].dir_path
                => conns[s].calls[i].ret = conns[t].calls[j].ret

\* the directories the walk of a scan visits from d: none when its test
\* excludes d, else d and, in a recursive scan, what it visits from the
\* directories below d
RECURSIVE WalkVisits(_, _)
WalkVisits(d, recursive) ==
    IF ~IsDir[d] \/ IsExcluded[d] THEN {}
    ELSE {d} \cup (IF recursive
                   THEN UNION {WalkVisits(c, recursive) : c \in Children[d]}
                   ELSE {})

WalkWouldProcess(fs, root, recursive) ==
    {f \in fs : /\ IsSupported[f]
                /\ \E d \in WalkVisits(root, recursive) : Canonical[d] = DirOf[f]}

\* C27: the count taken before the walk is 0 exactly when the walk itself
\* would process no file: when no supported file lies in a directory the
\* walk would visit.
C27_CountAgreesWithWalk ==
    frame.pc # "idle" =>
        (frame.total_files = 0
            <=> WalkWouldProcess(fsFiles, frame.directory, frame.recursive) = {})

\* C28: a scan of a root whose own name matches an exclusion pattern, and
\* below which supported files exist, stores no file row, writes no
\* directories row for the root, does not end by raising and returns 0,
\* with performance tracking on or off.
C28_ExcludedRootScansNothing ==
    (/\ frame.pc # "idle"
     /\ IsDir[frame.directory]
     /\ RuleExcludes[frame.directory]
     /\ fsFiles \cap SupportedFiles \cap BelowOf[frame.directory] # {})
        => /\ SessionRows = {}
           /\ ~\E r \in directories : r.dirpath = frame.directory
           /\ frame.pc # "raised"
           /\ frame.pc = "returned" => frame.result = 0

\* the entries of a level logged through the logger of the scanner in use
Logged(level) ==
    {r \in scan_logs : r.session_id = scanner.scan_session_id /\ r.log_level = level}

\* C29: the logger's get_error_count and get_warning_count are the numbers
\* of ERROR and WARNING entries logged through it so far, and the Errors and
\* Warnings lines of a final report are these numbers.
C29_LoggerCountsItsEntries ==
    scanner # NoScanner =>
        /\ get_error_count(scanner.db_logger) = Cardinality(Logged("ERROR"))
        /\ get_warning_count(scanner.db_logger) = Cardinality(Logged("WARNING"))
        /\ hist.reports > 0 =>
            /\ hist.error_count = Cardinality(Logged("ERROR"))
            /\ hist.warning_count = Cardinality(Logged("WARNING"))

\* C30: in every step of a scanner that tracks performance, a supported file
\* handed to _process_file raises files_processed by one and exactly one of
\* files_successful and files_failed by one, no other step changes the three
\* counters, and after every step files_processed is the sum of the other
\* two.
C30_TrackerCountsEveryFile ==
    [][LET t == scanner.tracker
           u == scanner'.tracker
           handed == \E f \in hist'.process_calls \ hist.process_calls :
                         IsSupported[f]
       IN  /\ scanner'.performance_reporting =>
                u.files_processed = u.files_successful + u.files_failed
           /\ (/\ scanner.performance_reporting
               /\ scanner'.scan_session_id = scanner.scan_session_id) =>
                IF handed
                THEN /\ u.files_processed = t.files_processed + 1
                     /\ \/ /\ u.files_successful = t.files_successful + 1
                           /\ u.files_failed = t.files_failed
                        \/ /\ u.files_successful = t.files_successful
                           /\ u.files_failed = t.files_failed + 1
                ELSE /\ u.files_processed = t.files_processed
                     /\ u.files_successful = t.files_successful
                     /\ u.files_failed = t.files_failed]_vars

\* a scan with tracking has returned after one file failed and another
\* succeeded
C30_Witness ==
    /\ frame.pc = "returned"
    /\ scanner.performance_reporting
    /\ scanner.tracker.files_failed = 1
    /\ scanner.tracker.files_successful >= 1
    /\ scanner.tracker.files_processed = Cardinality(hist.process_calls \cap SupportedFiles)

====
